---- MODULE Spec2Model ----
(***************************************************************************)
(* A model of the OTP field widget (src/src/ts/components/field.ts) and of  *)
(* its character filter (src/src/ts/utils/regex.ts).                        *)
(*                                                                         *)
(* The widget is one object: its configuration, its stored fieldValue, and  *)
(* the part of the document it owns (the containers it has appended, the    *)
(* content of its boxes, which box has the focus and that box's selection). *)
(* Every handler runs to completion inside one DOM event dispatch, so each  *)
(* handler and each public operation is one action.                         *)
(*                                                                         *)
(* Strings are sequences of one-character strings; box indices are 0-based  *)
(* as in the source.                                                       *)
(***************************************************************************)
EXTENDS Integers, Sequences, FiniteSets, TLC

VARIABLES
    phase,       \* "new" before the constructor ran, then "constructed" or "failed"
    config,      \* this.config
    containers,  \* how many elements with the field's id the document holds
    boxes,       \* box.value of the boxes the id lookup resolves to, by index
    fieldValue,  \* this.fieldValue
    focus,       \* index of the box that is document.activeElement, -1 when none is
    sel,         \* <<selectionStart, selectionEnd>> of the focused box
    lastOp,      \* the operation or handler that ran last
    lastIdx,     \* the box it was dispatched to, for an input, paste or keydown
    lastText,    \* the raw content (input), clipboard text (paste) or key it had
    err,         \* "none", or the error that operation threw
    defaultPrevented, \* whether the handler that ran called e.preventDefault()
    typed,       \* the characters typed one by one since clear() returned
    argValueType, \* the value type a direct call of the filter functions is given
    argValue,     \* the string such a call is given
    returned,     \* what the last such call returned or threw
    loggerInstance, \* Logger._instance and its logLevel
    console,      \* the lines written to the console, oldest first
    lastLog,      \* the Logger call that ran last, and the last setLevel argument
    fields,       \* two fields of one page: the config and fieldValue of each
    document,     \* the containers in the page's document, in document order
    activeElement, \* document.activeElement of the page, as <<container, child>>
    lastCall      \* the field whose operation or handler ran last on the page

vars == <<phase, config, containers, boxes, fieldValue, focus, sel,
          lastOp, lastIdx, lastText, err, defaultPrevented, typed,
          argValueType, argValue, returned,
          loggerInstance, console, lastLog,
          fields, document, activeElement, lastCall>>

fieldVars == <<phase, config, containers, boxes, fieldValue, focus, sel,
               lastOp, lastIdx, lastText, err, defaultPrevented, typed>>

filterVars == <<argValueType, argValue, returned>>

loggerVars == <<loggerInstance, console, lastLog>>

pageVars == <<fields, document, activeElement, lastCall>>

----------------------------------------------------------------------------
(* Bounds of the exploration.                                              *)

MaxBoxCount == 3
MaxContainers == 2
MaxLen == 3
MaxConsole == 3

----------------------------------------------------------------------------
(* Characters.  The alphabet samples every class the filters tell apart.   *)

Digits == {"1", "2"}
LowerCase == {"a"}
UpperCase == {"B"}
Symbols == {"!"}
Chars == Digits \cup LowerCase \cup UpperCase \cup Symbols

Min(a, b) == IF a < b THEN a ELSE b

\* What the user can leave in a box before its input event fires: nothing,
\* one character, or (editing that gets past maxLength) two characters.
RawInputs ==
    {<<>>} \cup {<<c>> : c \in Chars \ Symbols}
           \cup {<<"1", "2">>, <<"!", "2">>, <<"a", "!">>}

\* Clipboard texts.
PasteTexts ==
    {<<>>, <<"a">>, <<"1", "2">>, <<"2", "!", "1", "B">>,
     <<"1", "2", "1", "2", "1">>}

Keys == {"ArrowLeft", "ArrowUp", "ArrowRight", "ArrowDown",
         "Backspace", "Delete", "Enter"}

----------------------------------------------------------------------------
(* The filter.                                                             *)

OTPValueType ==
    {"NUMERIC", "ALPHABETIC", "ALPHABETIC_LOWER", "ALPHABETIC_UPPER",
     "ALPHANUMERIC", "ALPHANUMERIC_LOWER", "ALPHANUMERIC_UPPER"}

\* Mutant of RegExp: the pattern literal lacks the g flag.
RegExpNoFlag(strip, global) ==
    [valid |-> TRUE, strip |-> strip, global |-> FALSE]

\* A RegExp is modelled by the set of characters it matches and its g flag;
\* `valid = FALSE` stands for "selecting the pattern threw".
RegExp(strip, global) == [valid |-> TRUE, strip |-> strip, global |-> global]
NoRegExp == [valid |-> FALSE, strip |-> {}, global |-> FALSE]

\* Mutant of getOTPRegexForValueType: ALPHANUMERIC_UPPER has the pattern
\* /[^A-Za-z0-9]/g, which lets lower-case letters through.
getOTPRegexForValueTypeLower(valueType) ==
    CASE valueType = "NUMERIC" -> RegExp(Chars \ Digits, TRUE)
      [] valueType = "ALPHABETIC" ->
            RegExp(Chars \ (UpperCase \cup LowerCase), TRUE)
      [] valueType = "ALPHABETIC_LOWER" -> RegExp(Chars \ LowerCase, TRUE)
      [] valueType = "ALPHABETIC_UPPER" -> RegExp(Chars \ UpperCase, TRUE)
      [] valueType \in {"ALPHANUMERIC", "ALPHANUMERIC_UPPER"} ->
            RegExp(Chars \ (UpperCase \cup LowerCase \cup Digits), TRUE)
      [] valueType = "ALPHANUMERIC_LOWER" ->
            RegExp(Chars \ (LowerCase \cup Digits), TRUE)
      [] OTHER -> NoRegExp

\* Mutant of getOTPRegexForValueType: the switch has no throwing default, a
\* value that is no value type gets the NUMERIC pattern.
getOTPRegexForValueTypeLenient(valueType) ==
    CASE valueType = "ALPHABETIC" ->
            RegExp(Chars \ (UpperCase \cup LowerCase), TRUE)
      [] valueType = "ALPHABETIC_LOWER" -> RegExp(Chars \ LowerCase, TRUE)
      [] valueType = "ALPHABETIC_UPPER" -> RegExp(Chars \ UpperCase, TRUE)
      [] valueType = "ALPHANUMERIC" ->
            RegExp(Chars \ (UpperCase \cup LowerCase \cup Digits), TRUE)
      [] valueType = "ALPHANUMERIC_LOWER" ->
            RegExp(Chars \ (LowerCase \cup Digits), TRUE)
      [] valueType = "ALPHANUMERIC_UPPER" ->
            RegExp(Chars \ (UpperCase \cup Digits), TRUE)
      [] OTHER -> RegExp(Chars \ Digits, TRUE)

getOTPRegexForValueType(valueType) ==
    CASE valueType = "NUMERIC" -> RegExp(Chars \ Digits, TRUE)
      [] valueType = "ALPHABETIC" ->
            RegExp(Chars \ (UpperCase \cup LowerCase), TRUE)
      [] valueType = "ALPHABETIC_LOWER" -> RegExp(Chars \ LowerCase, TRUE)
      [] valueType = "ALPHABETIC_UPPER" -> RegExp(Chars \ UpperCase, TRUE)
      [] valueType = "ALPHANUMERIC" ->
            RegExp(Chars \ (UpperCase \cup LowerCase \cup Digits), TRUE)
      [] valueType = "ALPHANUMERIC_LOWER" ->
            RegExp(Chars \ (LowerCase \cup Digits), TRUE)
      [] valueType = "ALPHANUMERIC_UPPER" ->
            RegExp(Chars \ (UpperCase \cup Digits), TRUE)
      [] OTHER -> NoRegExp   \* throw new Error('Invalid OTP field value type')

\* Mutant of getOtpRegex: a value type that is given wins over customRegex.
getOtpRegexValueTypeFirst(cfg) ==
    IF cfg.valueType # "undefined"
    THEN getOTPRegexForValueType(cfg.valueType)
    ELSE IF cfg.customRegex.valid THEN cfg.customRegex
    ELSE getOTPRegexForValueType("NUMERIC")

\* Mutant of getOtpRegex: the default value type is ALPHANUMERIC.
getOtpRegexDefaultAlphanumeric(cfg) ==
    IF cfg.customRegex.valid
    THEN cfg.customRegex
    ELSE getOTPRegexForValueType(
             IF cfg.valueType = "undefined" THEN "ALPHANUMERIC"
             ELSE cfg.valueType)

\* this.config.customRegex, when set, else the pattern of
\* (this.config.valueType ?? OTPValueType.NUMERIC).
getOtpRegex(cfg) ==
    IF cfg.customRegex.valid
    THEN cfg.customRegex
    ELSE getOTPRegexForValueType(
             IF cfg.valueType = "undefined" THEN "NUMERIC" ELSE cfg.valueType)

\* Mutant of replace: the g flag is ignored, only the first match goes.
replaceFirstOnly(value, re) ==
    LET hits == {k \in 1 .. Len(value) : value[k] \in re.strip}
    IN IF hits = {} THEN value
       ELSE LET first == CHOOSE k \in hits : \A j \in hits : k <= j
            IN SubSeq(value, 1, first - 1) \o SubSeq(value, first + 1, Len(value))

\* String.prototype.replace(re, ''): every match goes with the g flag, only
\* the first one without it.
RECURSIVE replace(_, _)
replace(value, re) ==
    IF value = <<>> THEN <<>>
    ELSE IF Head(value) \in re.strip
         THEN IF re.global THEN replace(Tail(value), re) ELSE Tail(value)
         ELSE <<Head(value)>> \o replace(Tail(value), re)

applyRegex(cfg, value) == replace(value, getOtpRegex(cfg))

\* Mutant of applyRegexThrows: a missing pattern is taken as "strip nothing".
applyRegexNeverThrows(cfg) == FALSE

\* Whether applyRegex throws instead of returning.
applyRegexThrows(cfg) == ~getOtpRegex(cfg).valid

----------------------------------------------------------------------------
(* Configurations the constructor is called with.                          *)

\* Every box count up to the bound, the non-positive ones included, with no
\* value type given (the NUMERIC default) and onPasteBlur false.
BuiltInConfigs ==
    [namespace : {<<"otp">>},
     boxCount : (0 - 1) .. MaxBoxCount,
     onPasteBlur : {"false"},
     valueType : {"undefined"},
     customRegex : {NoRegExp}]

\* Small fields with nothing given but the namespace and the box count.
DefaultConfigs ==
    [namespace : {<<"pin">>},
     boxCount : {1, 2},
     onPasteBlur : {"undefined"},
     valueType : {"undefined"},
     customRegex : {NoRegExp}]

\* Small fields with onPasteBlur true: NUMERIC named, another built-in value
\* type, and a value type that is no enumerant.
NamedTypeConfigs ==
    [namespace : {<<"pin">>},
     boxCount : {1, 2},
     onPasteBlur : {"true"},
     valueType : {"NUMERIC", "ALPHANUMERIC_UPPER", "invalid"},
     customRegex : {NoRegExp}]

\* Small fields with a custom pattern (here /[^a-z]/g) next to no value type,
\* a built-in one, and one that is no enumerant.
CustomRegexConfigs ==
    [namespace : {<<"pin">>},
     boxCount : {1, 2},
     onPasteBlur : {"false"},
     valueType : {"undefined", "ALPHANUMERIC_UPPER", "invalid"},
     customRegex : {RegExp(Chars \ LowerCase, TRUE)}]

OtherConfigs == DefaultConfigs \cup NamedTypeConfigs \cup CustomRegexConfigs

OTPFieldConfig == BuiltInConfigs \cup OtherConfigs

NoConfig ==
    [namespace |-> <<>>, boxCount |-> 0, onPasteBlur |-> "undefined", valueType |-> "undefined",
     customRegex |-> NoRegExp]

----------------------------------------------------------------------------
(* Boxes.                                                                  *)

BoxIndices == 0 .. (config.boxCount - 1)

EmptyBoxes(boxCount) == [i \in 0 .. (boxCount - 1) |-> <<>>]

\* The element getter: document.getElementById(this.id) finds a container,
\* TRUE; FALSE is the throw of 'Element with ID ... not found in the DOM.'.
element == containers > 0

\* Mutant of getBoxAtIndex: the boxes are found whether or not a container
\* is in the document.
getBoxAtIndexDetached(index) == index \in BoxIndices

\* document.getElementById(getBoxId(index)) finds a box: TRUE; FALSE is the
\* throw of 'Unable to get box at index ...'.
getBoxAtIndex(index) == containers > 0 /\ index \in BoxIndices

\* index.toString() as written into data-index, and parseInt(_, 10) of it.
DecimalDigits == <<"0", "1", "2", "3", "4", "5", "6", "7", "8", "9">>

RECURSIVE toString(_)
toString(n) ==
    IF n < 0 THEN <<"-">> \o toString(0 - n)
    ELSE IF n < 10 THEN <<DecimalDigits[n + 1]>>
    ELSE toString(n \div 10) \o <<DecimalDigits[(n % 10) + 1]>>

DigitValue(d) == CHOOSE v \in 0 .. 9 : DecimalDigits[v + 1] = d

RECURSIVE parseInt(_)
parseInt(s) ==
    IF Len(s) = 1 THEN DigitValue(s[1])
    ELSE 10 * parseInt(SubSeq(s, 1, Len(s) - 1)) + DigitValue(s[Len(s)])

\* The ids of the container and of its boxes, as the pieces of the template
\* strings `otp-field-${namespace}` and `${namespace}-box-${index}`.
id(cfg) == <<"otp-field-">> \o cfg.namespace

getBoxId(cfg, index) == cfg.namespace \o <<"-box-">> \o toString(index)

\* The input element getBoxElement(index) creates.
getBoxElement(cfg, index) ==
    [id |-> getBoxId(cfg, index),
     maxLength |-> 1,
     dataIndex |-> toString(index),
     value |-> <<>>]

\* The container skeleton() returns: its children are the boxes in the order
\* they were appended (children[k] is the k-th child, counted from 1).
skeleton(cfg) ==
    [id |-> id(cfg),
     children |-> [k \in 1 .. cfg.boxCount |-> getBoxElement(cfg, k - 1)]]

\* Mutant of getBoxIndex: the parsed number is tested instead of the
\* attribute string, so index 0 counts as missing.
getBoxIndexFalsyZero(i) ==
    LET parsed == parseInt(getBoxElement(config, i).dataIndex)
    IN IF parsed # 0 THEN parsed ELSE 0 - 1

\* getBoxIndex of the box built with index i: its data-index attribute is
\* truthy (a non-empty string) and is parsed; -1 stands for the throw.
getBoxIndex(i) ==
    LET dataIndex == getBoxElement(config, i).dataIndex
    IN IF Len(dataIndex) > 0 THEN parseInt(dataIndex) ELSE 0 - 1

\* The concatenation updateValue builds over boxes 0 .. boxCount-1.
RECURSIVE concatFrom(_, _, _)
concatFrom(bs, i, boxCount) ==
    IF i >= boxCount THEN <<>> ELSE bs[i] \o concatFrom(bs, i + 1, boxCount)

\* Mutant of updateValue: the loop stops one box early.
updateValueSkipsLast(bs) == concatFrom(bs, 0, config.boxCount - 1)

updateValue(bs) == concatFrom(bs, 0, config.boxCount)

\* Selections a box holding len characters can have.
ValidSel(len) == {<<s, e>> : s \in 0 .. len, e \in 0 .. len} \cap
                 {p \in (0 .. len) \X (0 .. len) : p[1] <= p[2]}

\* Mutant of onBoxFocus: the listener selects nothing.
onBoxFocusSelectsNothing(value) == ValidSel(Len(value))

\* onBoxFocus: a box that holds exactly one character gets it selected;
\* otherwise the selection is the one the browser gives the box.
onBoxFocus(value) ==
    IF Len(value) = 1 THEN {<<0, 1>>} ELSE ValidSel(Len(value))

\* The selection after box.focus() on box `index` (content `bs[index]`):
\* focusing the box that already has the focus fires no focus event.
focusBox(index, bs) ==
    IF index = focus THEN {sel} ELSE onBoxFocus(bs[index])

\* Mutant of focusNextBox: the bound of the test is off by one.
focusNextBoxOffByOne(currentBox) ==
    IF getBoxIndex(currentBox) + 2 < config.boxCount
    THEN getBoxIndex(currentBox) + 1 ELSE focus

\* Mutant of focusNextBox: after the last box the focus wraps to box 0.
focusNextBoxWraps(currentBox) ==
    (getBoxIndex(currentBox) + 1) % config.boxCount

\* focusNextBox / focusPrevBox: the index the focus lands on.
focusNextBox(currentBox) ==
    LET currentBoxIndex == getBoxIndex(currentBox)
    IN IF currentBoxIndex + 1 < config.boxCount
       THEN currentBoxIndex + 1 ELSE focus

\* Mutant of focusPrevBox: the test is `currentBoxIndex - 1 > 0`.
focusPrevBoxStrict(currentBox) ==
    IF getBoxIndex(currentBox) - 1 > 0
    THEN getBoxIndex(currentBox) - 1 ELSE focus

focusPrevBox(currentBox) ==
    LET currentBoxIndex == getBoxIndex(currentBox)
    IN IF currentBoxIndex - 1 >= 0 THEN currentBoxIndex - 1 ELSE focus

----------------------------------------------------------------------------
(* The logger.                                                             *)

\* private logLevels
logLevels == <<"log", "info", "warn", "error">>

\* Array.prototype.indexOf: the first position of x, from 0, or -1.
indexOf(array, x) ==
    IF \E i \in 1 .. Len(array) : array[i] = x
    THEN (CHOOSE i \in 1 .. Len(array) :
            array[i] = x /\ \A j \in 1 .. (i - 1) : array[j] # x) - 1
    ELSE 0 - 1

\* Logger._instance before the first use, and a Logger as new Logger()
\* leaves it: logLevel is 'log'.
NoInstance == [defined |-> FALSE, logLevel |-> "undefined"]
NewLogger == [defined |-> TRUE, logLevel |-> "log"]

\* The static getter: Logger._instance after Logger.instance was read.
instance(current) == IF ~current.defined THEN NewLogger ELSE current

\* Mutant of shouldLog: a message of the configured level itself is dropped.
shouldLogAbove(logger, level) ==
    indexOf(logLevels, level) > indexOf(logLevels, logger.logLevel)

\* private shouldLog(level)
shouldLog(logger, level) ==
    indexOf(logLevels, level) >= indexOf(logLevels, logger.logLevel)

\* No Logger call was made.
NoLog == [op |-> "none", emitted |-> FALSE, configured |-> "none"]

NoLogger ==
    /\ loggerInstance = NoInstance
    /\ console = <<>>
    /\ lastLog = NoLog

\* Logger.instance.setLevel(logLevel)
setLevel(logLevel) ==
    /\ loggerInstance' = [instance(loggerInstance) EXCEPT !.logLevel = logLevel]
    /\ lastLog' = [op |-> "setLevel", emitted |-> FALSE,
                   configured |-> logLevel]
    /\ UNCHANGED <<console, fieldVars, filterVars, pageVars>>

\* One of the four logging methods of Logger.instance, called with `args`:
\* console[method](prefix, style, timestamp, ...args) when shouldLog(level).
\* The line recorded is the console method, the prefix and the arguments; the
\* style and the timestamp are left out of it.
write(method, prefix, args) ==
    /\ Len(console) < MaxConsole
    /\ LET logger == instance(loggerInstance)
           emitted == shouldLog(logger, method)
       IN /\ loggerInstance' = logger
          /\ console' = IF emitted
                        THEN Append(console, [method |-> method,
                                              prefix |-> prefix,
                                              args |-> args])
                        ELSE console
          /\ lastLog' = [op |-> method, emitted |-> emitted,
                         configured |-> lastLog.configured]
    /\ UNCHANGED <<fieldVars, filterVars, pageVars>>

\* Logger.instance.log(...args)
log(args) == write("log", "LOG:", args)

\* Logger.instance.error(...args)
error(args) == write("error", "ERROR:", args)

\* Logger.instance.warn(...args)
warn(args) == write("warn", "WARNING:", args)

\* Logger.instance.info(...args)
info(args) == write("info", "INFO:", args)

\* The arguments of the logging calls.
LogArgs == {<<"OTP Field">>}

----------------------------------------------------------------------------
(* Bookkeeping of the event that ran.                                      *)

\* The run of single valid characters typed since clear() returned: it
\* starts empty when clear() returns, grows with every input event that
\* carries one allowed character, and ends with anything else.
NotTyping == [on |-> FALSE, chars |-> <<>>]

typedAfter(op, text, e) ==
    IF e # "none" THEN NotTyping
    ELSE IF op = "clear" THEN [on |-> TRUE, chars |-> <<>>]
    ELSE IF /\ op = "input"
            /\ typed.on
            /\ Len(typed.chars) < config.boxCount
            /\ Len(text) = 1
            /\ text[1] \notin getOtpRegex(config).strip
         THEN [on |-> TRUE, chars |-> Append(typed.chars, text[1])]
    ELSE NotTyping

Handled(op, idx, text, e, prevented) ==
    /\ lastOp' = op
    /\ lastIdx' = idx
    /\ lastText' = text
    /\ err' = e
    /\ defaultPrevented' = prevented
    /\ typed' = typedAfter(op, text, e)
    /\ UNCHANGED <<filterVars, loggerVars, pageVars>>

Ran(op, idx, text, e) == Handled(op, idx, text, e, FALSE)

\* No direct call of the filter functions was made.
NoCall == [op |-> "none", arg |-> <<>>, thrown |-> "none", out |-> <<>>]

\* No field was constructed.
NoField ==
    /\ phase = "new"
    /\ config = NoConfig
    /\ containers = 0
    /\ boxes = EmptyBoxes(0)
    /\ fieldValue = <<>>
    /\ focus = 0 - 1
    /\ sel = <<0, 0>>
    /\ lastOp = "none"
    /\ lastIdx = 0 - 1
    /\ lastText = <<>>
    /\ err = "none"
    /\ defaultPrevented = FALSE
    /\ typed = NotTyping

\* The page of two fields is not in use.
Fields == {1, 2}

NoPage ==
    /\ fields = [f \in Fields |-> [config |-> NoConfig, fieldValue |-> <<>>]]
    /\ document = <<>>
    /\ activeElement = <<0, 0>>
    /\ lastCall = [field |-> 0, op |-> "none", thrown |-> FALSE]

Init ==
    /\ NoField
    /\ argValueType = "undefined"
    /\ argValue = <<>>
    /\ returned = NoCall
    /\ NoLogger
    /\ NoPage

----------------------------------------------------------------------------
(* Construction and lifecycle.                                             *)

\* Mutant of invalidBoxCount: zero boxes are let through.
invalidBoxCountStrict(cfg) == cfg.boxCount < 0

\* The constructor's check of config.boxCount.
invalidBoxCount(cfg) == cfg.boxCount <= 0

\* new OTPField(cfg)
Constructor(cfg) ==
    /\ phase = "new"
    /\ IF invalidBoxCount(cfg)
       THEN /\ phase' = "failed"
            /\ config' = config
            /\ Ran("constructor", 0 - 1, <<>>, "InvalidBoxCount")
       ELSE /\ phase' = "constructed"
            /\ config' = cfg
            /\ Ran("constructor", 0 - 1, <<>>, "none")
    /\ UNCHANGED <<containers, boxes, fieldValue, focus, sel>>

\* build(parentElement): one more container, with boxCount empty boxes, is
\* appended.  The id lookups resolve to the first container in the document.
Build ==
    /\ phase = "constructed"
    /\ containers < MaxContainers
    /\ containers' = containers + 1
    /\ boxes' = IF containers = 0
                THEN LET field == skeleton(config)
                     IN [i \in 0 .. (Len(field.children) - 1) |->
                            field.children[i + 1].value]
                ELSE boxes
    /\ Ran("build", 0 - 1, <<>>, "none")
    /\ UNCHANGED <<phase, config, fieldValue, focus, sel>>

\* build(parentElement) with a parent that is not in the document: the
\* container and its boxes exist, but no id lookup finds them.  (Explored for
\* a field that has no container in the document and none outside it, and
\* whose value is still empty.)
BuildDetached ==
    /\ phase = "constructed"
    /\ containers = 0
    /\ DOMAIN boxes = {}
    /\ fieldValue = <<>>
    /\ boxes' = LET field == skeleton(config)
                IN [i \in 0 .. (Len(field.children) - 1) |->
                       field.children[i + 1].value]
    /\ Ran("buildDetached", 0 - 1, <<>>, "none")
    /\ UNCHANGED <<phase, config, containers, fieldValue, focus, sel>>

\* Mutant of Destroy: document.activeElement is left on the removed box.
DestroyKeepsFocus ==
    /\ phase = "constructed"
    /\ IF ~element
       THEN /\ Ran("destroy", 0 - 1, <<>>, "ElementNotFound")
            /\ UNCHANGED <<containers, boxes, focus, sel>>
       ELSE /\ containers' = containers - 1
            /\ boxes' = IF containers > 1 THEN EmptyBoxes(config.boxCount)
                        ELSE EmptyBoxes(0)
            /\ Ran("destroy", 0 - 1, <<>>, "none")
            /\ UNCHANGED <<focus, sel>>
    /\ UNCHANGED <<phase, config, fieldValue>>

\* Mutant of Destroy: the stored value is reset with the element.
DestroyForgets ==
    /\ phase = "constructed"
    /\ IF ~element
       THEN /\ Ran("destroy", 0 - 1, <<>>, "ElementNotFound")
            /\ UNCHANGED <<containers, boxes, focus, sel, fieldValue>>
       ELSE /\ containers' = containers - 1
            /\ boxes' = IF containers > 1 THEN EmptyBoxes(config.boxCount)
                        ELSE EmptyBoxes(0)
            /\ focus' = 0 - 1
            /\ sel' = <<0, 0>>
            /\ fieldValue' = <<>>
            /\ Ran("destroy", 0 - 1, <<>>, "none")
    /\ UNCHANGED <<phase, config>>

\* destroy(): this.element.remove().  The first container goes, and its
\* boxes and the focus with it; the lookups then resolve to the next one.
Destroy ==
    /\ phase = "constructed"
    /\ IF ~element
       THEN /\ Ran("destroy", 0 - 1, <<>>, "ElementNotFound")
            /\ UNCHANGED <<containers, boxes, focus, sel>>
       ELSE /\ containers' = containers - 1
            /\ boxes' = IF containers > 1 THEN EmptyBoxes(config.boxCount)
                        ELSE EmptyBoxes(0)
            /\ focus' = 0 - 1
            /\ sel' = <<0, 0>>
            /\ Ran("destroy", 0 - 1, <<>>, "none")
    /\ UNCHANGED <<phase, config, fieldValue>>

----------------------------------------------------------------------------
(* Public operations.                                                      *)

\* Mutant of firstEmptyFrom: the loop has no break, the last empty box wins.
lastEmptyFrom(bs, i) ==
    LET empty == {k \in i .. (config.boxCount - 1) : bs[k] = <<>>}
    IN IF empty = {} THEN config.boxCount - 1
       ELSE CHOOSE k \in empty : \A j \in empty : j <= k

\* The box focus() picks: the first empty one, else the last.
RECURSIVE firstEmptyFrom(_, _)
firstEmptyFrom(bs, i) ==
    IF i >= config.boxCount THEN config.boxCount - 1
    ELSE IF bs[i] = <<>> THEN i ELSE firstEmptyFrom(bs, i + 1)

\* focus()
Focus ==
    /\ phase = "constructed"
    /\ IF ~getBoxAtIndex(0)
       THEN \* getBoxValue(0) throws in the first round of the loop
            /\ Ran("focus", 0 - 1, <<>>, "BoxNotFound")
            /\ UNCHANGED <<focus, sel>>
       ELSE LET focusBoxIndex == firstEmptyFrom(boxes, 0)
            IN /\ focus' = focusBoxIndex
               /\ sel' \in focusBox(focusBoxIndex, boxes)
               /\ Ran("focus", 0 - 1, <<>>, "none")
    /\ UNCHANGED <<phase, config, containers, boxes, fieldValue>>

\* Mutant of clearBoxes: the loop stops one box early.
clearBoxesSkipsLast(bs) ==
    [i \in DOMAIN bs |-> IF i < config.boxCount - 1 THEN <<>> ELSE bs[i]]

\* The loop of clear(): setBoxValue(i, '') for every box.
clearBoxes(bs) == [i \in DOMAIN bs |-> <<>>]

\* Mutant of Clear: fieldValue is reset before the loop over the boxes.
ClearResetsFirst ==
    /\ phase = "constructed"
    /\ IF ~getBoxAtIndex(0)
       THEN /\ Ran("clear", 0 - 1, <<>>, "BoxNotFound")
            /\ fieldValue' = <<>>
            /\ UNCHANGED <<boxes, focus, sel>>
       ELSE /\ boxes' = clearBoxes(boxes)
            /\ fieldValue' = <<>>
            /\ focus' = 0
            /\ sel' = <<0, 0>>
            /\ Ran("clear", 0 - 1, <<>>, "none")
    /\ UNCHANGED <<phase, config, containers>>

\* clear()
Clear ==
    /\ phase = "constructed"
    /\ IF ~getBoxAtIndex(0)
       THEN \* setBoxValue(0, '') throws before anything is reset
            /\ Ran("clear", 0 - 1, <<>>, "BoxNotFound")
            /\ UNCHANGED <<boxes, fieldValue, focus, sel>>
       ELSE /\ boxes' = clearBoxes(boxes)
            /\ fieldValue' = <<>>
            /\ focus' = 0
            /\ sel' = <<0, 0>>
            /\ Ran("clear", 0 - 1, <<>>, "none")
    /\ UNCHANGED <<phase, config, containers>>

----------------------------------------------------------------------------
(* What the user does to the mounted boxes besides typing.                 *)

\* A click or Tab gives box i the focus; its focus listener runs.
UserFocus(i) ==
    /\ phase = "constructed"
    /\ containers > 0
    /\ i \in BoxIndices
    /\ i # focus
    /\ focus' = i
    /\ sel' \in onBoxFocus(boxes[i])
    /\ Ran("userFocus", 0 - 1, <<>>, "none")
    /\ UNCHANGED <<phase, config, containers, boxes, fieldValue>>

\* The focus leaves the field.
UserBlur ==
    /\ phase = "constructed"
    /\ focus # 0 - 1
    /\ focus' = 0 - 1
    /\ sel' = <<0, 0>>
    /\ Ran("userBlur", 0 - 1, <<>>, "none")
    /\ UNCHANGED <<phase, config, containers, boxes, fieldValue>>

\* The caret or the selection is moved inside the focused box.
UserSelect(s) ==
    /\ phase = "constructed"
    /\ focus # 0 - 1
    /\ s \in ValidSel(Len(boxes[focus]))
    /\ s # sel
    /\ sel' = s
    /\ Ran("userSelect", 0 - 1, <<>>, "none")
    /\ UNCHANGED <<phase, config, containers, boxes, fieldValue, focus>>

----------------------------------------------------------------------------
(* Event handlers.  Keyboard, input and paste events go to the box that    *)
(* has the focus.                                                          *)

\* onBoxInput, after the browser has left `raw` in the focused box.
OnBoxInput(raw) ==
    /\ phase = "constructed"
    /\ focus # 0 - 1
    /\ LET target == focus
       IN IF applyRegexThrows(config)
          THEN /\ boxes' = [boxes EXCEPT ![target] = raw]
               /\ sel' \in ValidSel(Len(raw))
               /\ Ran("input", target, raw, "InvalidValueType")
               /\ UNCHANGED <<fieldValue, focus>>
          ELSE LET updatedValue == applyRegex(config, raw)
                   written == [boxes EXCEPT ![target] = updatedValue]
                   next == IF updatedValue # <<>>
                           THEN focusNextBox(target) ELSE target
               IN /\ boxes' = written
                  /\ focus' = next
                  /\ sel' \in IF next = target
                              THEN ValidSel(Len(updatedValue))
                              ELSE onBoxFocus(written[next])
                  /\ fieldValue' = updateValue(written)
                  /\ Ran("input", target, raw, "none")
    /\ UNCHANGED <<phase, config, containers>>

\* onBoxInput on box i of a container that is not in the document (the event
\* is dispatched by a script, `raw` being the box's content): the box gets the
\* filtered content, then the first lookup by id throws, in focusNextBox's
\* focusBox or else in updateValue's getBoxValue(0).
OnDetachedBoxInput(i, raw) ==
    /\ phase = "constructed"
    /\ containers = 0
    /\ i \in DOMAIN boxes
    /\ IF applyRegexThrows(config)
       THEN /\ boxes' = [boxes EXCEPT ![i] = raw]
            /\ Ran("detachedInput", i, raw, "InvalidValueType")
       ELSE LET updatedValue == applyRegex(config, raw)
                currentBoxIndex == getBoxIndex(i)
                lookedUp == IF /\ updatedValue # <<>>
                               /\ currentBoxIndex + 1 < config.boxCount
                            THEN currentBoxIndex + 1 ELSE 0
            IN /\ ~getBoxAtIndex(lookedUp)
               /\ boxes' = [boxes EXCEPT ![i] = updatedValue]
               /\ Ran("detachedInput", i, raw, "BoxNotFound")
    /\ UNCHANGED <<phase, config, containers, fieldValue, focus, sel>>

\* Mutant of pasteWrite: the whole filtered text goes into the target box.
pasteWriteWhole(bs, currentBoxIndex, pastedValue, maxLength) ==
    [i \in DOMAIN bs |->
        IF i = currentBoxIndex /\ maxLength >= 1 THEN pastedValue ELSE bs[i]]

\* Mutant of pasteWrite: every box written gets the first pasted character.
pasteWriteFirstChar(bs, currentBoxIndex, pastedValue, maxLength) ==
    [i \in DOMAIN bs |->
        IF i >= currentBoxIndex /\ i < currentBoxIndex + maxLength
        THEN <<pastedValue[1]>>
        ELSE bs[i]]

\* Mutant of pasteWrite: the boxes after the ones written are emptied.
pasteWriteClearsRest(bs, currentBoxIndex, pastedValue, maxLength) ==
    [i \in DOMAIN bs |->
        IF i >= currentBoxIndex /\ i < currentBoxIndex + maxLength
        THEN <<pastedValue[(i - currentBoxIndex) + 1]>>
        ELSE IF i >= currentBoxIndex + maxLength THEN <<>> ELSE bs[i]]

\* The boxes after the paste loop wrote pastedValue[0 .. maxLength-1] from
\* currentBoxIndex on.
pasteWrite(bs, currentBoxIndex, pastedValue, maxLength) ==
    [i \in DOMAIN bs |->
        IF i >= currentBoxIndex /\ i < currentBoxIndex + maxLength
        THEN <<pastedValue[(i - currentBoxIndex) + 1]>>
        ELSE bs[i]]

\* The box the paste handler focuses when it does not blur.
pasteFocusIndex(currentBoxIndex, maxLength) == currentBoxIndex + maxLength - 1

\* Mutant of pasteBlurs: an unspecified onPasteBlur counts as false.
pasteBlursWhenTruthy(cfg) == cfg.onPasteBlur = "true"

\* Whether the paste handler blurs its target.
pasteBlurs(cfg) == cfg.onPasteBlur = "true" \/ cfg.onPasteBlur = "undefined"

\* onBoxPaste with clipboard text `pastedText`.
OnBoxPaste(pastedText) ==
    /\ phase = "constructed"
    /\ focus # 0 - 1
    /\ LET target == focus
       IN IF applyRegexThrows(config)
          THEN /\ Handled("paste", target, pastedText, "InvalidValueType",
                          TRUE)
               /\ UNCHANGED <<boxes, fieldValue, focus, sel>>
          ELSE LET pastedValue == applyRegex(config, pastedText)
                   currentBoxIndex == getBoxIndex(target)
                   maxLength == Min(config.boxCount - currentBoxIndex,
                                    Len(pastedValue))
                   written == pasteWrite(boxes, currentBoxIndex, pastedValue,
                                         maxLength)
                   last == pasteFocusIndex(currentBoxIndex, maxLength)
               IN /\ boxes' = written
                  /\ IF pasteBlurs(config)
                     THEN /\ focus' = 0 - 1
                          /\ sel' = <<0, 0>>
                          /\ fieldValue' = updateValue(written)
                          /\ Handled("paste", target, pastedText, "none", TRUE)
                     ELSE IF ~getBoxAtIndex(last)
                     THEN \* focusBox throws; updateValue is not reached
                          /\ Handled("paste", target, pastedText, "BoxNotFound", TRUE)
                          /\ UNCHANGED <<fieldValue, focus, sel>>
                     ELSE /\ focus' = last
                          /\ sel' \in IF last = target
                                      THEN ValidSel(Len(written[last]))
                                      ELSE onBoxFocus(written[last])
                          /\ fieldValue' = updateValue(written)
                          /\ Handled("paste", target, pastedText, "none", TRUE)
    /\ UNCHANGED <<phase, config, containers>>

\* Mutant of keyDownFocus: Backspace moves back only from an empty box, the
\* test of selectionEnd is missing.
keyDownFocusBackspaceEmptyOnly(key, target) ==
    CASE key \in {"ArrowLeft", "ArrowUp"} -> focusPrevBox(target)
      [] key \in {"ArrowRight", "ArrowDown"} -> focusNextBox(target)
      [] key = "Backspace" ->
            IF boxes[target] = <<>> THEN focusPrevBox(target) ELSE target
      [] key = "Delete" ->
            IF boxes[target] = <<>> \/ (sel[1] # 0 /\ sel[2] = 1)
            THEN focusNextBox(target) ELSE target
      [] OTHER -> target

\* Mutant of keyDownFocus: Delete moves on whenever selectionEnd is 1, also
\* when the character is selected from 0.
keyDownFocusDeleteAnyStart(key, target) ==
    CASE key \in {"ArrowLeft", "ArrowUp"} -> focusPrevBox(target)
      [] key \in {"ArrowRight", "ArrowDown"} -> focusNextBox(target)
      [] key = "Backspace" ->
            IF boxes[target] = <<>> \/ sel[2] = 0
            THEN focusPrevBox(target) ELSE target
      [] key = "Delete" ->
            IF boxes[target] = <<>> \/ sel[2] = 1
            THEN focusNextBox(target) ELSE target
      [] OTHER -> target

\* The box onBoxKeyDown moves the focus to.
keyDownFocus(key, target) ==
    CASE key \in {"ArrowLeft", "ArrowUp"} -> focusPrevBox(target)
      [] key \in {"ArrowRight", "ArrowDown"} -> focusNextBox(target)
      [] key = "Backspace" ->
            IF boxes[target] = <<>> \/ sel[2] = 0
            THEN focusPrevBox(target) ELSE target
      [] key = "Delete" ->
            IF boxes[target] = <<>> \/ (sel[1] # 0 /\ sel[2] = 1)
            THEN focusNextBox(target) ELSE target
      [] OTHER -> target

\* Mutant of keyDownPreventsDefault: only the keys that move back do.
keyDownPreventsDefaultBackOnly(key) == key \in {"ArrowLeft", "ArrowUp"}

\* Whether onBoxKeyDown calls e.preventDefault() for the key.
keyDownPreventsDefault(key) ==
    key \in {"ArrowLeft", "ArrowUp"} \/ key \in {"ArrowRight", "ArrowDown"}

\* Mutant of OnBoxKeyDown: on Backspace the handler empties the box itself.
OnBoxKeyDownErasing(key) ==
    /\ phase = "constructed"
    /\ focus # 0 - 1
    /\ LET target == focus
           next == keyDownFocus(key, target)
       IN /\ focus' = next
          /\ sel' \in focusBox(next, boxes)
          /\ boxes' = IF key = "Backspace"
                      THEN [boxes EXCEPT ![target] = <<>>] ELSE boxes
          /\ Handled("keydown", target, <<key>>, "none",
                     keyDownPreventsDefault(key))
    /\ UNCHANGED <<phase, config, containers, fieldValue>>

\* onBoxKeyDown
OnBoxKeyDown(key) ==
    /\ phase = "constructed"
    /\ focus # 0 - 1
    /\ LET target == focus
           next == keyDownFocus(key, target)
       IN /\ focus' = next
          /\ sel' \in focusBox(next, boxes)
          /\ Handled("keydown", target, <<key>>, "none",
                     keyDownPreventsDefault(key))
    /\ UNCHANGED <<phase, config, containers, boxes, fieldValue>>

----------------------------------------------------------------------------

Next ==
    \/ \E cfg \in OTPFieldConfig : Constructor(cfg)
    \/ Build
    \/ BuildDetached
    \/ Destroy
    \/ Focus
    \/ Clear
    \/ \E i \in 0 .. (MaxBoxCount - 1) : UserFocus(i)
    \/ UserBlur
    \/ \E s \in (0 .. 2) \X (0 .. 2) : UserSelect(s)
    \/ \E raw \in RawInputs : OnBoxInput(raw)
    \/ \E i \in 0 .. (MaxBoxCount - 1), raw \in RawInputs :
            OnDetachedBoxInput(i, raw)
    \/ \E pastedText \in PasteTexts : OnBoxPaste(pastedText)
    \/ \E key \in Keys : OnBoxKeyDown(key)

Spec == Init /\ [][Next]_vars

\* The field driven by a keyboard only: a box has maxLength 1 (skeleton),
\* so an input event a key press causes leaves at most one raw character in
\* the box; every other event and operation is as in Next.
KeyedInputs == {raw \in RawInputs : Len(raw) <= 1}

KeyedNext ==
    \/ \E cfg \in OTPFieldConfig : Constructor(cfg)
    \/ Build
    \/ BuildDetached
    \/ Destroy
    \/ Focus
    \/ Clear
    \/ \E i \in 0 .. (MaxBoxCount - 1) : UserFocus(i)
    \/ UserBlur
    \/ \E s \in (0 .. 2) \X (0 .. 2) : UserSelect(s)
    \/ \E raw \in KeyedInputs : OnBoxInput(raw)
    \/ \E i \in 0 .. (MaxBoxCount - 1), raw \in KeyedInputs :
            OnDetachedBoxInput(i, raw)
    \/ \E pastedText \in PasteTexts : OnBoxPaste(pastedText)
    \/ \E key \in Keys : OnBoxKeyDown(key)

KeyedSpec == Init /\ [][KeyedNext]_vars

----------------------------------------------------------------------------
(* The filter functions called directly, as the unit tests of regex.ts do:  *)
(* on every value type, on values that are no value type, and on every      *)
(* string of up to MaxLen characters.                                      *)

ValueTypeArgs == OTPValueType \cup {"invalid", "numeric", "undefined"}

RECURSIVE StringsUpTo(_)
StringsUpTo(n) ==
    IF n = 0 THEN {<<>>}
    ELSE LET shorter == StringsUpTo(n - 1)
         IN shorter \cup {<<c>> \o t : c \in Chars, t \in {u \in shorter : Len(u) = n - 1}}

\* A configuration that gives the value type and nothing else.
ConfigOfValueType(valueType) ==
    [namespace |-> <<"otp">>, boxCount |-> 1, onPasteBlur |-> "undefined",
     valueType |-> valueType, customRegex |-> NoRegExp]

FilterInit ==
    /\ NoField
    /\ argValueType \in ValueTypeArgs
    /\ argValue \in StringsUpTo(MaxLen)
    /\ returned = NoCall
    /\ NoLogger
    /\ NoPage

\* getOTPRegexForValueType(argValueType), then argValue.replace(regex, '')
\* when a pattern came back.
CallGetOTPRegexForValueType ==
    /\ returned.op = "none"
    /\ LET regex == getOTPRegexForValueType(argValueType)
       IN returned' =
            IF regex.valid
            THEN [op |-> "getOTPRegexForValueType", arg |-> argValue,
                  thrown |-> "none", out |-> replace(argValue, regex)]
            ELSE [op |-> "getOTPRegexForValueType", arg |-> argValue,
                  thrown |-> "Invalid OTP field value type", out |-> <<>>]
    /\ UNCHANGED <<phase, config, containers, boxes, fieldValue, focus, sel,
                   lastOp, lastIdx, lastText, err, defaultPrevented, typed,
                   argValueType, argValue, loggerVars, pageVars>>

\* applyRegex(argValue) on a field configured with argValueType.
CallApplyRegex ==
    /\ returned.op = "none"
    /\ LET cfg == ConfigOfValueType(argValueType)
       IN returned' =
            IF applyRegexThrows(cfg)
            THEN [op |-> "applyRegex", arg |-> argValue,
                  thrown |-> "Invalid OTP field value type", out |-> <<>>]
            ELSE [op |-> "applyRegex", arg |-> argValue, thrown |-> "none",
                  out |-> applyRegex(cfg, argValue)]
    /\ UNCHANGED <<phase, config, containers, boxes, fieldValue, focus, sel,
                   lastOp, lastIdx, lastText, err, defaultPrevented, typed,
                   argValueType, argValue, loggerVars, pageVars>>

\* applyRegex once more, on what the first call returned.
CallApplyRegexAgain ==
    /\ returned.op = "applyRegex"
    /\ returned.thrown = "none"
    /\ returned' = [op |-> "applyRegexAgain", arg |-> returned.out,
                    thrown |-> "none",
                    out |-> applyRegex(ConfigOfValueType(argValueType),
                                       returned.out)]
    /\ UNCHANGED <<phase, config, containers, boxes, fieldValue, focus, sel,
                   lastOp, lastIdx, lastText, err, defaultPrevented, typed,
                   argValueType, argValue, loggerVars, pageVars>>

FilterNext ==
    \/ CallGetOTPRegexForValueType
    \/ CallApplyRegex
    \/ CallApplyRegexAgain

FilterSpec == FilterInit /\ [][FilterNext]_vars

----------------------------------------------------------------------------
(* The logger used on its own: any sequence of setLevel and logging calls   *)
(* through Logger.instance, until the console holds MaxConsole lines.       *)

LoggerNext ==
    \/ \E logLevel \in {logLevels[i] : i \in 1 .. Len(logLevels)} :
            setLevel(logLevel)
    \/ \E args \in LogArgs : log(args)
    \/ \E args \in LogArgs : error(args)
    \/ \E args \in LogArgs : warn(args)
    \/ \E args \in LogArgs : info(args)

LoggerSpec == Init /\ [][LoggerNext]_vars

----------------------------------------------------------------------------
(* Vocabulary of the properties, stated apart from the handlers' code.     *)

Mounted == phase = "constructed" /\ containers > 0

\* The contents of boxes 0 .. n-1 in index order, one after the other.
RECURSIVE Concatenation(_, _)
Concatenation(bs, n) ==
    IF n = 0 THEN <<>> ELSE Concatenation(bs, n - 1) \o bs[n - 1]

BoxesConcatenated == Concatenation(boxes, config.boxCount)

\* The characters the configured filter keeps, and a text reduced to them.
FilterDefined == getOtpRegex(config).valid
AllowedChars == Chars \ getOtpRegex(config).strip
IsAllowed(c) == c \in AllowedChars
Filtered(text) == SelectSeq(text, IsAllowed)

\* The number of characters a paste of `text` on box c writes.
PasteCount(c, text) == Min(config.boxCount - c, Len(Filtered(text)))

\* The smallest index of an empty box, or the last index when none is empty.
FirstEmptyOrLast(bs) ==
    IF \E i \in BoxIndices : bs[i] = <<>>
    THEN CHOOSE i \in BoxIndices :
            bs[i] = <<>> /\ \A j \in BoxIndices : bs[j] = <<>> => i <= j
    ELSE config.boxCount - 1

----------------------------------------------------------------------------
(* Properties.                                                             *)

\* C1: on a mounted field, after every completed character-input handler,
\* paste handler and clear() call, in any order and number, `value` equals
\* the concatenation of the contents of boxes 0 .. boxCount-1 in index order.
C1_ValueIsConcatenation ==
    (Mounted /\ lastOp \in {"input", "paste", "clear"} /\ err = "none")
        => fieldValue = BoxesConcatenated

\* C1 witness: an input completed on a field with a filled box on each side
\* of an empty one; the value is the two characters without a gap marker.
C1_Witness ==
    /\ Mounted /\ lastOp = "input" /\ err = "none"
    /\ config.boxCount = 3
    /\ boxes[0] = <<"1">> /\ boxes[1] = <<>> /\ boxes[2] = <<"2">>
    /\ fieldValue = <<"1", "2">>

\* C2: a paste of text t on box c writes, with f = filter(t) and
\* n = min(boxCount - c, length(f)), the character f[k] into box c+k for
\* every k in 0 .. n-1; the characters of f beyond n-1 are discarded, none
\* wraps around to a box before c.
C2_PasteDistributes ==
    [][(lastOp' = "paste" /\ FilterDefined) =>
            LET c == lastIdx'
                f == Filtered(lastText')
                n == PasteCount(c, lastText')
            IN /\ \A k \in 0 .. (n - 1) : boxes'[c + k] = <<f[k + 1]>>
               /\ \A j \in BoxIndices : j < c => boxes'[j] = boxes[j]]_vars

\* C2 witness: five valid characters were pasted on box 1 of a three-box
\* field; the first two are in boxes 1 and 2, the rest is gone.
C2_Witness ==
    /\ Mounted /\ lastOp = "paste" /\ err = "none"
    /\ config.boxCount = 3
    /\ lastIdx = 1 /\ lastText = <<"1", "2", "1", "2", "1">>
    /\ boxes[0] = <<>> /\ boxes[1] = <<"1">> /\ boxes[2] = <<"2">>

\* C3: a paste on box c that writes n characters leaves the content of every
\* box with index < c and every box with index >= c+n unchanged; a paste whose
\* filtered text is empty changes no box.
C3_PasteFrame ==
    [][(lastOp' = "paste" /\ FilterDefined) =>
            LET c == lastIdx'
                n == PasteCount(c, lastText')
            IN /\ \A j \in BoxIndices :
                    (j < c \/ j >= c + n) => boxes'[j] = boxes[j]
               /\ Filtered(lastText') = <<>> => boxes' = boxes]_vars

\* C3 witness: "12" was pasted on box 0 of a three-box field whose last box
\* was filled before (no paste on box 0 writes "2" there); it still is.
C3_Witness ==
    /\ Mounted /\ lastOp = "paste" /\ err = "none"
    /\ config.boxCount = 3
    /\ lastIdx = 0 /\ lastText = <<"1", "2">>
    /\ boxes[0] = <<"1">> /\ boxes[1] = <<"2">> /\ boxes[2] = <<"2">>

\* C4: with onPasteBlur = false, after a paste on box c that writes n
\* characters the focus is on box c+n-1 when n >= 1 and on the paste target c
\* itself when n = 0, for every c including 0; the paste completes and
\* recomputes the value in both cases.
C4_PasteFocusLastWritten ==
    (Mounted /\ lastOp = "paste" /\ FilterDefined
        /\ config.onPasteBlur = "false")
        => LET c == lastIdx
               n == PasteCount(c, lastText)
           IN /\ err = "none"
              /\ focus = IF n >= 1 THEN c + n - 1 ELSE c
              /\ fieldValue = BoxesConcatenated

\* C5: when onPasteBlur is true or was not specified, after any paste no box
\* of the field has the focus, however many characters were written.
C5_PasteBlurs ==
    (Mounted /\ lastOp = "paste" /\ FilterDefined
        /\ config.onPasteBlur \in {"true", "undefined"})
        => (err = "none" /\ focus = 0 - 1)

\* C5 witness: with onPasteBlur not specified, two characters were pasted on
\* box 0 and no box has the focus.
C5_Witness ==
    /\ Mounted /\ lastOp = "paste" /\ err = "none"
    /\ config.onPasteBlur = "undefined"
    /\ lastIdx = 0 /\ lastText = <<"1", "2">>
    /\ fieldValue = <<"1", "2">>
    /\ focus = 0 - 1

\* C6: a character-input event on box i whose filtered content is non-empty
\* moves the focus to box i+1 when i < boxCount-1, whether or not box i+1 is
\* already filled, and leaves the focus on box i when i = boxCount-1.
C6_InputAdvancesFocus ==
    (Mounted /\ lastOp = "input" /\ FilterDefined
        /\ Filtered(lastText) # <<>>)
        => focus = IF lastIdx < config.boxCount - 1
                   THEN lastIdx + 1 ELSE lastIdx

\* C6 witness: a valid character was typed into box 0 and the focus is on
\* box 1, which is filled already.
C6_Witness ==
    /\ Mounted /\ lastOp = "input" /\ err = "none"
    /\ config.boxCount = 3
    /\ lastIdx = 0 /\ lastText = <<"1">>
    /\ boxes[1] = <<"2">>
    /\ focus = 1

\* C7: after the character-input handler runs on a box whose raw content is
\* r, the box's content is exactly filter(r); when filter(r) is empty the box
\* ends empty, the focus does not move, no error is raised, and the value is
\* still recomputed.
C7_InputFilters ==
    (Mounted /\ lastOp = "input" /\ FilterDefined)
        => /\ boxes[lastIdx] = Filtered(lastText)
           /\ err = "none"
           /\ Filtered(lastText) = <<>> =>
                /\ boxes[lastIdx] = <<>>
                /\ focus = lastIdx
                /\ fieldValue = BoxesConcatenated

\* C7 witness: the raw content "a!" of box 1 was stripped whole under the
\* numeric filter; box 1 is empty and focused, the value is box 0's character.
C7_Witness ==
    /\ Mounted /\ lastOp = "input" /\ err = "none"
    /\ config.boxCount = 3
    /\ lastIdx = 1 /\ lastText = <<"a", "!">>
    /\ boxes[0] = <<"1">> /\ boxes[1] = <<>>
    /\ focus = 1
    /\ fieldValue = <<"1">>

\* C8: clear() on a mounted field in any state leaves every box empty, `value`
\* equal to the empty string, and the focus on box 0.
C8_Clear ==
    (Mounted /\ lastOp = "clear")
        => /\ err = "none"
           /\ \A i \in BoxIndices : boxes[i] = <<>>
           /\ fieldValue = <<>>
           /\ focus = 0

\* C8 witness: clear() returned on a mounted three-box field.
C8_Witness ==
    /\ Mounted /\ lastOp = "clear" /\ err = "none"
    /\ config.boxCount = 3
    /\ boxes = [i \in 0 .. 2 |-> <<>>]
    /\ focus = 0 /\ fieldValue = <<>>

\* C9: focus() on a mounted field focuses the box with the smallest index
\* whose content is empty, and box boxCount-1 when no box is empty; it changes
\* no box content and not the value.
C9_FocusFirstEmpty ==
    [][(Mounted /\ lastOp' = "focus") =>
            /\ err' = "none"
            /\ focus' = FirstEmptyOrLast(boxes)
            /\ boxes' = boxes
            /\ fieldValue' = fieldValue]_vars

\* C9 witness: focus() returned with the focus on the empty middle box of a
\* field whose other boxes are filled.
C9_Witness ==
    /\ Mounted /\ lastOp = "focus" /\ err = "none"
    /\ config.boxCount = 3
    /\ boxes[0] = <<"1">> /\ boxes[1] = <<>> /\ boxes[2] = <<"2">>
    /\ focus = 1

\* C10: constructing a field fails with an error for every boxCount <= 0 and
\* succeeds for every integer boxCount > 0; a failed construction produces no
\* widget (nothing can be done with it), and a successful one touches nothing
\* but the stored configuration: the value is empty and nothing is mounted.
C10_Constructor ==
    [][/\ phase # "failed"
       /\ \A cfg \in OTPFieldConfig :
            (lastOp' = "constructor" /\ Constructor(cfg)) =>
                IF cfg.boxCount <= 0
                THEN /\ phase' = "failed" /\ err' = "InvalidBoxCount"
                     /\ config' = config
                     /\ fieldValue' = <<>> /\ containers' = 0
                ELSE /\ phase' = "constructed" /\ err' = "none"
                     /\ config' = cfg
                     /\ fieldValue' = <<>> /\ containers' = 0
                     /\ focus' = 0 - 1]_vars

\* C10 witness: the constructor threw on a box count that is not positive.
C10_Witness ==
    /\ lastOp = "constructor" /\ phase = "failed" /\ err = "InvalidBoxCount"
    /\ containers = 0 /\ fieldValue = <<>>

\* The decimal numeral of a box index (the indices here have one digit).
IndexNumeral(i) ==
    CASE i = 0 -> <<"0">> [] i = 1 -> <<"1">> [] i = 2 -> <<"2">>
      [] i = 3 -> <<"3">> [] i = 4 -> <<"4">> [] i = 5 -> <<"5">>

\* C11: after construction with boxCount = N > 0 and one build(), the
\* container holds exactly N boxes in index order, box i having the id
\* "{namespace}-box-{i}" and the data-index attribute i, every box empty; the
\* box-to-index lookup getBoxIndex returns i for box i, i = 0 included.
C11_BuildBoxes ==
    (Mounted /\ lastOp = "build" /\ containers = 1)
        => LET field == skeleton(config)
               N == config.boxCount
           IN /\ N > 0
              /\ Len(field.children) = N
              /\ DOMAIN boxes = 0 .. (N - 1)
              /\ \A i \in 0 .. (N - 1) :
                    /\ field.children[i + 1].id =
                            config.namespace \o <<"-box-">> \o IndexNumeral(i)
                    /\ field.children[i + 1].dataIndex = IndexNumeral(i)
                    /\ field.children[i + 1].value = <<>>
                    /\ boxes[i] = <<>>
                    /\ getBoxAtIndex(i)
                    /\ getBoxIndex(i) = i

\* C11 witness: a three-box field of namespace "otp" was built once; its
\* boxes are empty and the third one has the id otp-box-2.
C11_Witness ==
    /\ Mounted /\ lastOp = "build" /\ containers = 1
    /\ config.namespace = <<"otp">> /\ config.boxCount = 3
    /\ boxes = [i \in 0 .. 2 |-> <<>>]
    /\ skeleton(config).children[3].id = <<"otp", "-box-", "2">>
    /\ getBoxIndex(0) = 0

\* C12: `element` access fails with a not-found error before build() and
\* after destroy(), and returns the container between them; consequently
\* destroy() itself fails with that error when called before build() or a
\* second time in a row.
C12_ElementLifecycle ==
    phase = "constructed"
        => /\ lastOp = "constructor" => ~element
           /\ lastOp = "build" => element
           /\ lastOp = "destroy" => ~element

\* C13: every operation that looks a box up by index fails with a not-found
\* error when the field is not mounted (no container of it is in the
\* document); the error reaches the caller: focus() and clear() called then
\* end in it.
C13_UnmountedLookupFails ==
    (phase = "constructed" /\ ~Mounted)
        => /\ \A index \in (0 - 1) .. MaxBoxCount : ~getBoxAtIndex(index)
           /\ lastOp \in {"focus", "clear"} => err = "BoxNotFound"
           /\ focus = 0 - 1

\* C13 witness: clear() was called after destroy() on a field that had a
\* character entered; it threw the box-not-found error.
C13_Witness ==
    /\ phase = "constructed" /\ containers = 0
    /\ lastOp = "clear" /\ err = "BoxNotFound"
    /\ fieldValue = <<"1">>

\* The character class each value type names.
ClassOf(valueType) ==
    CASE valueType = "NUMERIC" -> Digits
      [] valueType = "ALPHABETIC" -> UpperCase \cup LowerCase
      [] valueType = "ALPHABETIC_LOWER" -> LowerCase
      [] valueType = "ALPHABETIC_UPPER" -> UpperCase
      [] valueType = "ALPHANUMERIC" -> UpperCase \cup LowerCase \cup Digits
      [] valueType = "ALPHANUMERIC_LOWER" -> LowerCase \cup Digits
      [] valueType = "ALPHANUMERIC_UPPER" -> UpperCase \cup Digits

InArgClass(c) == c \in ClassOf(argValueType)

\* C14: for each of the seven value types the filter keeps exactly the
\* characters of its class and removes every other character, preserving
\* order (lower-case letters are stripped under ALPHANUMERIC_UPPER).
C14_FilterTable ==
    (returned.op = "getOTPRegexForValueType" /\ argValueType \in OTPValueType)
        => /\ returned.thrown = "none"
           /\ returned.out = SelectSeq(returned.arg, InArgClass)

\* C14 witness: the ALPHANUMERIC_UPPER pattern was applied to "aB1"; the
\* lower-case letter went, "B1" is left in order.
C14_Witness ==
    /\ returned.op = "getOTPRegexForValueType"
    /\ argValueType = "ALPHANUMERIC_UPPER"
    /\ returned.arg = <<"a", "B", "1">>
    /\ returned.out = <<"B", "1">>

\* C15: selecting the filter for any value that is not one of the seven
\* value types fails with the error 'Invalid OTP field value type' instead of
\* returning a filter.
C15_InvalidValueTypeThrows ==
    (returned.op = "getOTPRegexForValueType" /\ argValueType \notin OTPValueType)
        => /\ returned.thrown = "Invalid OTP field value type"
           /\ returned.out = <<>>

\* C15 witness: getOTPRegexForValueType('invalid') threw.
C15_Witness ==
    /\ returned.op = "getOTPRegexForValueType"
    /\ argValueType = "invalid"
    /\ returned.thrown = "Invalid OTP field value type"

\* C16: for every value type and every string s, filtering is idempotent:
\* filter(filter(s)) = filter(s).
C16_FilterIdempotent ==
    returned.op = "applyRegexAgain" => returned.out = returned.arg

\* C16 witness: "!!1" was filtered to "1" under NUMERIC and filtering "1"
\* again returned "1".
C16_Witness ==
    /\ returned.op = "applyRegexAgain"
    /\ argValueType = "NUMERIC"
    /\ argValue = <<"!", "!", "1">>
    /\ returned.arg = <<"1">>
    /\ returned.out = <<"1">>

\* What a text is reduced to by the configured custom pattern, and by the
\* class 0-9.
CustomKeeps(c) == c \notin config.customRegex.strip
IsDigit(c) == c \in Digits

\* The value-type settings a configuration can carry.
ValueTypeSettings == OTPValueType \cup {"undefined", "invalid"}

\* The boxes an input or paste event with filtered text f left behind: the
\* input target holds f; a paste on box c wrote f[k] into box c+k.
EventWrote(f) ==
    /\ lastOp = "input" => boxes[lastIdx] = f
    /\ lastOp = "paste" =>
            \A k \in 0 .. (Min(config.boxCount - lastIdx, Len(f)) - 1) :
                boxes[lastIdx + k] = <<f[k + 1]>>

\* C17: when customRegex is set, input and paste are filtered with that
\* pattern only: the outcome of every input and paste event is the same for
\* every valueType setting (an unset or unrecognized one included), and no
\* invalid-value-type error is raised.
C17_CustomRegexOnly ==
    (Mounted /\ lastOp \in {"input", "paste"} /\ config.customRegex.valid)
        => /\ err # "InvalidValueType"
           /\ EventWrote(SelectSeq(lastText, CustomKeeps))
           /\ err = "none" => fieldValue = BoxesConcatenated
           /\ \A vt \in ValueTypeSettings :
                getOtpRegex([config EXCEPT !.valueType = vt]) = config.customRegex

\* C17 witness: under the custom pattern /[^a-z]/g and a value type that is
\* no enumerant, "a" was typed and kept, and no error was raised.
C17_Witness ==
    /\ Mounted /\ lastOp = "input" /\ err = "none"
    /\ config.customRegex.valid /\ config.valueType = "invalid"
    /\ lastText = <<"a">> /\ boxes[lastIdx] = <<"a">>
    /\ fieldValue = <<"a">>

\* C18: when neither valueType nor customRegex is configured, every input and
\* paste event behaves exactly as with valueType = NUMERIC: only 0-9 is
\* retained.
C18_DefaultIsNumeric ==
    (Mounted /\ lastOp \in {"input", "paste"} /\ ~config.customRegex.valid
        /\ config.valueType \in {"undefined", "NUMERIC"})
        => /\ err # "InvalidValueType"
           /\ EventWrote(SelectSeq(lastText, IsDigit))
           /\ err = "none" => fieldValue = BoxesConcatenated
           /\ getOtpRegex(config) = getOTPRegexForValueType("NUMERIC")

\* C18 witness: with no value type and no custom pattern configured, the raw
\* content "!2" of a box was reduced to "2".
C18_Witness ==
    /\ Mounted /\ lastOp = "input" /\ err = "none"
    /\ config.valueType = "undefined" /\ ~config.customRegex.valid
    /\ lastText = <<"!", "2">> /\ boxes[lastIdx] = <<"2">>

\* C19: Backspace keydown on box i moves the focus to box i-1 if and only if
\* i > 0 and (box i is empty or its selection end is 0); on box 0 it never
\* moves the focus, and on a non-empty box whose selection end is not 0 (the
\* character selected 0..1, say) the focus stays on box i.
C19_BackspaceMoves ==
    [][(lastOp' = "keydown" /\ lastText' = <<"Backspace">>) =>
            LET i == lastIdx'
            IN /\ i = focus
               /\ err' = "none"
               /\ focus' \in {i, i - 1}
               /\ (focus' = i - 1) <=>
                      (i > 0 /\ (boxes[i] = <<>> \/ sel[2] = 0))]_vars

\* C19 witness: Backspace was pressed on box 1, which holds a character (the
\* caret was before it), and the focus is on box 0.
C19_Witness ==
    /\ Mounted /\ lastOp = "keydown" /\ lastText = <<"Backspace">>
    /\ lastIdx = 1 /\ boxes[1] = <<"2">>
    /\ focus = 0

C21_ArrowBack ==
    [][(lastOp' = "keydown"
            /\ lastText' \in {<<"ArrowLeft">>, <<"ArrowUp">>}) =>
            LET i == lastIdx'
            IN /\ i = focus
               /\ defaultPrevented'
               /\ err' = "none"
               /\ focus' = IF i > 0 THEN i - 1 ELSE 0]_vars

\* C21 witness: ArrowUp was pressed on box 1 and the focus is on box 0.
C21_Witness ==
    /\ Mounted /\ lastOp = "keydown" /\ lastText = <<"ArrowUp">>
    /\ lastIdx = 1 /\ focus = 0
    /\ defaultPrevented /\ err = "none"

\* C22: ArrowRight or ArrowDown keydown on box i suppresses the default
\* action and moves the focus to box i+1 when i < boxCount-1; on the last box
\* the focus stays and no error is raised.
C22_ArrowForward ==
    [][(lastOp' = "keydown"
            /\ lastText' \in {<<"ArrowRight">>, <<"ArrowDown">>}) =>
            LET i == lastIdx'
            IN /\ i = focus
               /\ defaultPrevented'
               /\ err' = "none"
               /\ focus' = IF i < config.boxCount - 1 THEN i + 1 ELSE i]_vars

\* C22 witness: ArrowDown was pressed on the last box of a three-box field;
\* the focus is still there.
C22_Witness ==
    /\ Mounted /\ lastOp = "keydown" /\ lastText = <<"ArrowDown">>
    /\ config.boxCount = 3 /\ lastIdx = 2 /\ focus = 2
    /\ defaultPrevented /\ err = "none"

\* C23: the keydown handler (arrow keys, Backspace, Delete, any other key) and
\* the focus handler leave the content of every box and the stored value
\* unchanged; they change only focus and selection.
C23_NavigationFrame ==
    [][lastOp' \in {"keydown", "userFocus"} =>
            /\ boxes' = boxes
            /\ fieldValue' = fieldValue
            /\ containers' = containers
            /\ config' = config]_vars

\* C23 witness: Backspace was pressed on the filled box 1 with the caret in
\* front; the focus went to box 0, both boxes and the value are as they were.
C23_Witness ==
    /\ Mounted /\ lastOp = "keydown" /\ lastText = <<"Backspace">>
    /\ lastIdx = 1 /\ focus = 0
    /\ boxes[0] = <<"1">> /\ boxes[1] = <<"2">>
    /\ fieldValue = <<"1", "2">>

\* C24: whenever a box receives the focus while holding exactly one character
\* (by user focus, focus(), a focus move after input, arrow, Backspace or
\* Delete navigation, or the focus after a paste), its selection becomes start
\* 0, end 1; when the box is empty the focus handler changes no selection.
C24_FocusSelects ==
    [][(focus' # focus /\ focus' # 0 - 1) =>
            /\ Len(boxes'[focus']) = 1 => sel' = <<0, 1>>
            /\ boxes'[focus'] = <<>> => sel' = <<0, 0>>]_vars

\* C24 witness: typing into box 0 moved the focus to box 1, which holds one
\* character; it is selected.
C24_Witness ==
    /\ Mounted /\ lastOp = "input" /\ err = "none"
    /\ lastIdx = 0 /\ focus = 1
    /\ boxes[1] = <<"2">>
    /\ sel = <<0, 1>>

\* C25: in every reachable state of a mounted field, after any sequence of
\* input and paste events (input events may carry raw content of more than
\* one character), every box holds at most one character and that character
\* is in the allowed class.
C25_OneAllowedCharPerBox ==
    (Mounted /\ FilterDefined)
        => \A i \in BoxIndices :
                /\ Len(boxes[i]) <= 1
                /\ \A k \in 1 .. Len(boxes[i]) : IsAllowed(boxes[i][k])

\* C26: every handler and public operation other than paste is
\* all-or-nothing: whenever it raises an error (a box lookup failing because
\* the field is unmounted or was built under a parent that is not in the
\* document, say), no box content, focus or value has been changed by it.  (An
\* input handler starts from the box holding the raw content of the event.)
C26_AllOrNothing ==
    [][(err' # "none" /\ lastOp' # "paste") =>
            /\ focus' = focus
            /\ fieldValue' = fieldValue
            /\ boxes' = IF lastOp' \in {"input", "detachedInput"}
                        THEN [boxes EXCEPT ![lastIdx'] = lastText']
                        ELSE boxes]_vars

\* C27: a field configured with an unrecognized valueType and no customRegex
\* is constructed and built without error; the invalid-configuration error is
\* raised only when the filter is selected, that is by each input and paste
\* event, and such a failing event changes no box content, no focus and not
\* the value; navigation keys, focus(), clear() and destroy() keep working.
C27_InvalidValueTypeLate ==
    [][~FilterDefined' =>
            /\ lastOp' \in {"constructor", "build"} => err' = "none"
            /\ lastOp' \in {"input", "paste"} =>
                    /\ err' = "InvalidValueType"
                    /\ focus' = focus
                    /\ fieldValue' = fieldValue
                    /\ boxes' = IF lastOp' = "input"
                                THEN [boxes EXCEPT ![lastIdx'] = lastText']
                                ELSE boxes
            /\ lastOp' \notin {"input", "paste", "detachedInput"} =>
                    err' # "InvalidValueType"
            /\ (Mounted /\ lastOp' \in {"keydown", "focus", "clear", "destroy"})
                    => err' = "none"]_vars

\* C27 witness: on a built field with a value type that is no enumerant, "1"
\* was typed; the handler threw, the box holds what was typed, the value is
\* empty and the focus has not moved.
C27_Witness ==
    /\ Mounted /\ ~FilterDefined
    /\ lastOp = "input" /\ err = "InvalidValueType"
    /\ lastText = <<"1">> /\ boxes[lastIdx] = <<"1">>
    /\ focus = lastIdx
    /\ fieldValue = <<>>

\* C28: after any sequence of build() and destroy() calls on one widget, the
\* document holds at most one container with the field's id and, when
\* mounted, exactly boxCount boxes; a destroy() that returns leaves the field
\* unmounted, so that the next `element` access fails.
C28_OneContainer ==
    phase = "constructed"
        => /\ containers <= 1
           /\ Mounted => DOMAIN boxes = BoxIndices
           /\ (lastOp = "destroy" /\ err = "none") => ~element

\* C29: at every quiescent state in which the field is mounted, over the
\* whole lifecycle (a destroy() followed by a new build() after characters
\* were entered included), `value` equals the concatenation of the contents
\* of the currently mounted boxes.
C29_ValueTracksMountedBoxes ==
    (Mounted /\ FilterDefined) => fieldValue = BoxesConcatenated

\* C30: starting from a cleared mounted field with the focus on box 0,
\* boxCount successive input events, each typing one valid character into the
\* focused box, fill boxes 0 .. boxCount-1 in order, end with the focus on
\* box boxCount-1, and leave `value` equal to the typed characters in typing
\* order.
C30_TypingFills ==
    (Mounted /\ typed.on)
        => LET k == Len(typed.chars)
           IN /\ k <= config.boxCount
              /\ \A i \in BoxIndices :
                    boxes[i] = IF i < k THEN <<typed.chars[i + 1]>> ELSE <<>>
              /\ focus = Min(k, config.boxCount - 1)
              /\ fieldValue = typed.chars

\* C30 witness: "1", "2", "1" were typed after clear() into a three-box
\* field; the boxes hold them in order, the focus is on the last box.
C30_Witness ==
    /\ Mounted /\ typed.on
    /\ config.boxCount = 3
    /\ typed.chars = <<"1", "2", "1">>
    /\ boxes[0] = <<"1">> /\ boxes[1] = <<"2">> /\ boxes[2] = <<"1">>
    /\ focus = 2
    /\ fieldValue = <<"1", "2", "1">>

----------------------------------------------------------------------------
(* Focus range, value frame and clear() on an unmounted field.             *)

C33_ValueFrame ==
    [][fieldValue' # fieldValue => lastOp' \in {"input", "paste", "clear"}]_vars

\* C33 witness: destroy() has run on a field whose value was "12"; the value
\* is still "12" although no box is left.
C33_Witness ==
    /\ phase = "constructed" /\ containers = 0 /\ DOMAIN boxes = {}
    /\ lastOp = "destroy" /\ err = "none"
    /\ fieldValue = <<"1", "2">>

\* C34: clear() on a field that has no container in the document (before
\* build() or after destroy()) throws the box-not-found error before it
\* resets anything: value, boxes, focus and selection are what they were.
C34_ClearUnmountedKeepsValue ==
    [][(lastOp' = "clear" /\ phase = "constructed" /\ ~Mounted)
          => /\ err' = "BoxNotFound"
             /\ fieldValue' = fieldValue
             /\ boxes' = boxes
             /\ focus' = focus
             /\ sel' = sel]_vars

\* C34 witness: clear() threw on a destroyed field whose value "12" is kept.
C34_Witness ==
    /\ phase = "constructed" /\ containers = 0
    /\ lastOp = "clear" /\ err = "BoxNotFound"
    /\ fieldValue = <<"1", "2">>

\* The field filters by a built-in value type: no custom pattern is set and
\* valueType is an enumerant, or unset (the NUMERIC default).
BuiltInValueType ==
    /\ config.customRegex = NoRegExp
    /\ config.valueType \in OTPValueType \cup {"undefined"}

AllowedClass ==
    ClassOf(IF config.valueType = "undefined" THEN "NUMERIC"
            ELSE config.valueType)

\* C32: for a built-in value type, in every state reached by events and
\* operations in which each input event carries at most one raw character,
\* the value is at most boxCount characters long and every character of it
\* belongs to the class of the value type.
C32_ValueWithinBoxes ==
    (phase = "constructed" /\ BuiltInValueType)
        => /\ Len(fieldValue) <= config.boxCount
           /\ \A k \in 1 .. Len(fieldValue) : fieldValue[k] \in AllowedClass

\* C32 witness: five digits were pasted on box 0 of a mounted field of three
\* boxes; the value is the first three.
C32_Witness ==
    /\ Mounted /\ BuiltInValueType
    /\ config.boxCount = 3
    /\ lastOp = "paste" /\ lastIdx = 0 /\ err = "none"
    /\ lastText = <<"1", "2", "1", "2", "1">>
    /\ fieldValue = <<"1", "2", "1">>

----------------------------------------------------------------------------
(* The logger's level filter.                                              *)

\* The severity order log < info < warn < error.
LevelRank(level) ==
    CASE level = "log" -> 0
      [] level = "info" -> 1
      [] level = "warn" -> 2
      [] level = "error" -> 3

\* The level in force: the argument of the last setLevel call made through
\* Logger.instance, 'log' when there was none.
Configured ==
    IF lastLog.configured = "none" THEN "log" ELSE lastLog.configured

\* C36: a logging call of level m writes its line to the console if and only
\* if m is at or above the configured level in the order log < info < warn <
\* error; the configured level is 'log' until setLevel is called, so that
\* everything is written; and every use of Logger.instance works on the one
\* instance, whose level is the one the last setLevel call gave.
C36_LoggerLevels ==
    /\ lastLog.op \in {"log", "info", "warn", "error"}
          => /\ lastLog.emitted <=>
                    LevelRank(lastLog.op) >= LevelRank(Configured)
             /\ lastLog.emitted =>
                    /\ console # <<>>
                    /\ console[Len(console)].method = lastLog.op
    /\ lastLog.op # "none"
          => /\ loggerInstance.defined
             /\ loggerInstance.logLevel = Configured
    /\ lastLog.op = "none" => (~loggerInstance.defined /\ console = <<>>)

\* C36 witness: after setLevel('warn') a warn() call wrote its line and an
\* info() call, the last one, wrote nothing.
C36_Witness ==
    /\ lastLog = [op |-> "info", emitted |-> FALSE, configured |-> "warn"]
    /\ Len(console) = 1
    /\ console[1].method = "warn" /\ console[1].prefix = "WARNING:"

----------------------------------------------------------------------------
(* Two fields in one document.  The document is the sequence of the        *)
(* containers appended to it; an element is <<p, k>>: container p itself    *)
(* when k = 0, else its k-th child; <<0, 0>> is null.                       *)

\* Namespaces, as the pieces their strings are made of: 'q', 'q-box-0' and
\* 'otp-field-q'.
PageNamespaces == {<<"q">>, <<"q", "-box-", "0">>, <<"otp-field-", "q">>}

PageConfigs ==
    [namespace : PageNamespaces,
     boxCount : {2},
     onPasteBlur : {"undefined"},
     valueType : {"undefined"},
     customRegex : {NoRegExp}]

\* What is typed into a box and what is pasted on the page.
PageInputs == {<<>>, <<"1">>}
PageTexts == {<<"1", "2">>}

null == <<0, 0>>

\* The elements of the document in document order: a container comes before
\* its children, and both before the next container.
Elements(doc) ==
    UNION {{<<p, k>> : k \in 0 .. Len(doc[p].children)} : p \in 1 .. Len(doc)}

Precedes(e, g) == e[1] < g[1] \/ (e[1] = g[1] /\ e[2] <= g[2])

IdOf(doc, e) ==
    IF e[2] = 0 THEN doc[e[1]].id ELSE doc[e[1]].children[e[2]].id

\* document.getElementById: the first element in document order with the id.
getElementById(doc, elementId) ==
    LET found == {e \in Elements(doc) : IdOf(doc, e) = elementId}
    IN IF found = {} THEN null
       ELSE CHOOSE e \in found : \A g \in found : Precedes(e, g)

\* element.value read and written; a div has no value until one is written
\* to it, and reads as undefined, which += turns into 'undefined'.
ValueOf(doc, e) ==
    IF e[2] = 0 THEN doc[e[1]].value ELSE doc[e[1]].children[e[2]].value

WithValue(doc, e, v) ==
    IF e[2] = 0 THEN [doc EXCEPT ![e[1]].value = v]
    ELSE [doc EXCEPT ![e[1]].children[e[2]].value = v]

Without(seq, i) == SubSeq(seq, 1, i - 1) \o SubSeq(seq, i + 1, Len(seq))

\* element.remove()
Removed(doc, e) ==
    IF e[2] = 0 THEN Without(doc, e[1])
    ELSE [doc EXCEPT ![e[1]].children = Without(@, e[2])]

\* document.activeElement once element e is removed.
ActiveWithout(active, e) ==
    IF e[2] = 0
    THEN IF active[1] = e[1] THEN null
         ELSE IF active[1] > e[1] THEN <<active[1] - 1, active[2]>>
         ELSE active
    ELSE IF active[1] # e[1] THEN active
         ELSE IF active[2] = e[2] THEN null
         ELSE IF active[2] > e[2] THEN <<active[1], active[2] - 1>>
         ELSE active

\* element.focus(): an input takes the focus, a div (no tabindex) does not.
Focused(active, e) == IF e[2] > 0 THEN e ELSE active

\* getBoxAtIndex for the field configured with cfg: null stands for its throw.
getBoxAtIndexIn(doc, cfg, index) == getElementById(doc, getBoxId(cfg, index))

\* The loop of clear(): the document it leaves, and whether a lookup threw.
RECURSIVE clearFrom(_, _, _)
clearFrom(doc, cfg, i) ==
    IF i >= cfg.boxCount THEN [doc |-> doc, thrown |-> FALSE]
    ELSE LET box == getBoxAtIndexIn(doc, cfg, i)
         IN IF box = null THEN [doc |-> doc, thrown |-> TRUE]
            ELSE clearFrom(WithValue(doc, box, <<>>), cfg, i + 1)

\* The loop of updateValue: the concatenation, and whether a lookup threw.
RECURSIVE valueFrom(_, _, _)
valueFrom(doc, cfg, i) ==
    IF i >= cfg.boxCount THEN [value |-> <<>>, thrown |-> FALSE]
    ELSE LET box == getBoxAtIndexIn(doc, cfg, i)
             rest == valueFrom(doc, cfg, i + 1)
         IN IF box = null \/ rest.thrown
            THEN [value |-> <<>>, thrown |-> TRUE]
            ELSE [value |-> ValueOf(doc, box) \o rest.value,
                  thrown |-> FALSE]

\* The loop of focus(): the index of the first empty box, boxCount - 1 when
\* none is empty, -1 when a lookup threw.
RECURSIVE focusIndexFrom(_, _, _)
focusIndexFrom(doc, cfg, i) ==
    IF i >= cfg.boxCount THEN cfg.boxCount - 1
    ELSE LET box == getBoxAtIndexIn(doc, cfg, i)
         IN IF box = null THEN 0 - 1
            ELSE IF ValueOf(doc, box) = <<>> THEN i
            ELSE focusIndexFrom(doc, cfg, i + 1)

\* The loop of onBoxPaste from box c on: the document it leaves, and whether
\* a lookup threw.
RECURSIVE pasteFrom(_, _, _, _, _, _)
pasteFrom(doc, cfg, c, pastedValue, i, maxLength) ==
    IF i >= maxLength THEN [doc |-> doc, thrown |-> FALSE]
    ELSE LET box == getBoxAtIndexIn(doc, cfg, c + i)
         IN IF box = null THEN [doc |-> doc, thrown |-> TRUE]
            ELSE pasteFrom(WithValue(doc, box, <<pastedValue[i + 1]>>), cfg,
                           c, pastedValue, i + 1, maxLength)

Called(f, op, thrown) ==
    /\ lastCall' = [field |-> f, op |-> op, thrown |-> thrown]
    /\ UNCHANGED <<fieldVars, filterVars, loggerVars>>

\* Two fields constructed on an empty page: the second has the namespace
\* 'q-box-0', the first the same one or one of the other two.
PageInit ==
    /\ NoField
    /\ argValueType = "undefined"
    /\ argValue = <<>>
    /\ returned = NoCall
    /\ NoLogger
    /\ fields \in [Fields -> [config : PageConfigs, fieldValue : {<<>>}]]
    /\ fields[2].config.namespace = <<"q", "-box-", "0">>
    /\ document = <<>>
    /\ activeElement = null
    /\ lastCall = [field |-> 0, op |-> "none", thrown |-> FALSE]

\* fields[f].build(parent): skeleton() is appended to the document.
PageBuild(f) ==
    /\ Len(document) < MaxContainers
    /\ LET field == skeleton(fields[f].config)
       IN document' = Append(document,
                [owner |-> f, id |-> field.id, value |-> <<"undefined">>,
                 children |-> field.children])
    /\ Called(f, "build", FALSE)
    /\ UNCHANGED <<fields, activeElement>>

\* fields[f].destroy(): this.element.remove()
PageDestroy(f) ==
    /\ LET e == getElementById(document, id(fields[f].config))
       IN IF e = null
          THEN /\ Called(f, "destroy", TRUE)
               /\ UNCHANGED <<document, activeElement>>
          ELSE /\ document' = Removed(document, e)
               /\ activeElement' = ActiveWithout(activeElement, e)
               /\ Called(f, "destroy", FALSE)
    /\ UNCHANGED fields

\* fields[f].clear()
PageClear(f) ==
    LET cfg == fields[f].config
        cleared == clearFrom(document, cfg, 0)
    IN /\ document' = cleared.doc
       /\ IF cleared.thrown
          THEN /\ Called(f, "clear", TRUE)
               /\ UNCHANGED <<fields, activeElement>>
          ELSE /\ fields' = [fields EXCEPT ![f].fieldValue = <<>>]
               /\ activeElement' =
                     Focused(activeElement, getBoxAtIndexIn(cleared.doc, cfg, 0))
               /\ Called(f, "clear", FALSE)

\* fields[f].focus()
PageFocus(f) ==
    LET cfg == fields[f].config
        focusBoxIndex == focusIndexFrom(document, cfg, 0)
    IN /\ IF focusBoxIndex = 0 - 1
          THEN /\ Called(f, "focus", TRUE)
               /\ UNCHANGED activeElement
          ELSE /\ activeElement' =
                      Focused(activeElement,
                              getBoxAtIndexIn(document, cfg, focusBoxIndex))
               /\ Called(f, "focus", FALSE)
       /\ UNCHANGED <<fields, document>>

\* The user types into box e, which leaves `raw` in it: onBoxInput of the
\* field that created the box runs.
PageInput(e, raw) ==
    /\ e \in Elements(document)
    /\ e[2] > 0
    /\ LET f == document[e[1]].owner
           cfg == fields[f].config
           updatedValue == applyRegex(cfg, raw)
           written == WithValue(document, e, updatedValue)
           currentBoxIndex == parseInt(document[e[1]].children[e[2]].dataIndex)
           moves == updatedValue # <<>> /\ currentBoxIndex + 1 < cfg.boxCount
           next == getBoxAtIndexIn(written, cfg, currentBoxIndex + 1)
           concatenated == valueFrom(written, cfg, 0)
       IN /\ document' = written
          /\ IF moves /\ next = null
             THEN /\ activeElement' = e
                  /\ Called(f, "input", TRUE)
                  /\ UNCHANGED fields
             ELSE /\ activeElement' = IF moves THEN Focused(e, next) ELSE e
                  /\ IF concatenated.thrown
                     THEN /\ Called(f, "input", TRUE)
                          /\ UNCHANGED fields
                     ELSE /\ fields' = [fields EXCEPT ![f].fieldValue =
                                                        concatenated.value]
                          /\ Called(f, "input", FALSE)

\* The user pastes pastedText on box e: onBoxPaste of the field that created
\* the box runs.
PagePaste(e, pastedText) ==
    /\ e \in Elements(document)
    /\ e[2] > 0
    /\ LET f == document[e[1]].owner
           cfg == fields[f].config
           pastedValue == applyRegex(cfg, pastedText)
           currentBoxIndex == parseInt(document[e[1]].children[e[2]].dataIndex)
           maxLength == Min(cfg.boxCount - currentBoxIndex, Len(pastedValue))
           pasted == pasteFrom(document, cfg, currentBoxIndex, pastedValue, 0,
                               maxLength)
           last == getBoxAtIndexIn(pasted.doc, cfg,
                                   pasteFocusIndex(currentBoxIndex, maxLength))
           concatenated == valueFrom(pasted.doc, cfg, 0)
       IN /\ document' = pasted.doc
          /\ IF pasted.thrown \/ (~pasteBlurs(cfg) /\ last = null)
             THEN /\ activeElement' = e
                  /\ Called(f, "paste", TRUE)
                  /\ UNCHANGED fields
             ELSE /\ activeElement' = IF pasteBlurs(cfg) THEN null
                                      ELSE Focused(e, last)
                  /\ IF concatenated.thrown
                     THEN /\ Called(f, "paste", TRUE)
                          /\ UNCHANGED fields
                     ELSE /\ fields' = [fields EXCEPT ![f].fieldValue =
                                                        concatenated.value]
                          /\ Called(f, "paste", FALSE)

PageNext ==
    \/ \E f \in Fields : PageBuild(f)
    \/ \E f \in Fields : PageDestroy(f)
    \/ \E f \in Fields : PageClear(f)
    \/ \E f \in Fields : PageFocus(f)
    \/ \E e \in (1 .. MaxContainers) \X (1 .. MaxBoxCount), raw \in PageInputs :
            PageInput(e, raw)
    \/ \E e \in (1 .. MaxContainers) \X (1 .. MaxBoxCount),
          pastedText \in PageTexts : PagePaste(e, pastedText)

PageSpec == PageInit /\ [][PageNext]_vars

\* The containers a field built, in document order, with their boxes and
\* what the boxes hold.
Owned(doc, f) ==
    LET BuiltByF(container) == container.owner = f
    IN SelectSeq(doc, BuiltByF)

\* The boxes the lookups of field f resolve to, by index: null, or the
\* field that built the element found, which of that field's containers it is
\* in, and which child it is.
FocusTargets(doc, f) ==
    [index \in 0 .. (fields[f].config.boxCount - 1) |->
        LET e == getBoxAtIndexIn(doc, fields[f].config, index)
        IN IF e = null THEN <<0, 0, 0>>
           ELSE <<doc[e[1]].owner,
                  Cardinality({p \in 1 .. e[1] :
                                  doc[p].owner = doc[e[1]].owner}),
                  e[2]>>]

\* What a step of field f leaves of field o: its containers, boxes and box
\* contents, the boxes its lookups resolve to, and its value.
Untouched(o) ==
    /\ Owned(document', o) = Owned(document, o)
    /\ FocusTargets(document', o) = FocusTargets(document, o)
    /\ fields'[o] = fields[o]

\* C35: two fields built in one document with different namespaces do not
\* interfere: every operation or event of one leaves the other's boxes and
\* their contents, the boxes the other's lookups resolve to, and the other's
\* value unchanged.
C35_Isolation ==
    [][\A f \in Fields, o \in Fields :
          (/\ lastCall'.field = f
           /\ o # f
           /\ fields[f].config.namespace # fields[o].config.namespace)
              => Untouched(o)]_vars

====
